---- MODULE Spec2Model ----
(***************************************************************************)
(* The Alchemist dashboard (app.py): one Streamlit script, re-executed     *)
(* top to bottom on every user interaction.  A render cycle is             *)
(*   Ingest (lines 18-47) -> Engineer dates (50-65) -> Sentiment (68-81)   *)
(*   -> Dashboard (85-147).                                                *)
(* The model keeps the script's globals (df, filtered_df), the messages    *)
(* it shows, and the position of the cycle.                                *)
(*                                                                         *)
(* Encoding of values                                                      *)
(*   Date cell     [k, a, b]: k = "str"  the text "a/b/2024"               *)
(*                            k = "garbage" text that is no date           *)
(*                            k = "NaT"  pandas' missing timestamp         *)
(*                            k = "ts"   Timestamp, month a, day b         *)
(*   Journal cell  [k, s]:    k = "nan" empty cell, k = "text" with s the  *)
(*                            sequence of its tokens (words and blanks)    *)
(*   scores        integers, polarity times Scale                          *)
(*   means         [num, den], the quotient num/den                        *)
(***************************************************************************)
EXTENDS Integers, Sequences, FiniteSets, TLC

VARIABLES
    pc,           \* next step of the current render cycle
    source,       \* what the user selected/supplied for this cycle
    df,           \* the script's global df (None or a table)
    filtered_df,  \* df.tail(days_to_show) with the Mood columns added
    shown,        \* messages surfaced in this cycle
    kpi,          \* the KPI scoreboard of lines 97-104
    fallback,     \* value of the condition of line 56 in this cycle
    scored,       \* index labels of the rows handed to TextBlob
    first_out,    \* output of the first Normalizer pass, when it is re-applied
    prev_halted   \* the previous cycle halted without data

vars == <<pc, source, df, filtered_df, shown, kpi, fallback, scored,
          first_out, prev_halted>>

----------------------------------------------------------------------------
(* Bounds of the model *)

\* rows of a general raw table
MaxRows == 2
\* rows of a raw table of the long-log family (exercises the 7-row window)
MaxLogRows == 8

(* Program constants *)

\* rolling(window=7, ...)
Window == 7
\* rolling(..., min_periods=1)
MinPeriods == 1
\* slider lower end and default of "Lookback Window (Days)"
SliderMin == 7
SliderDefault == 30
\* polarity 1.0 in model units
Scale == 10
\* calendar limits used by the date parser
MonthsInYear == 12
DaysInMonth == 31
\* (Mood_Score - 3) / 2
MoodCentre == 3
MoodHalfRange == 2

----------------------------------------------------------------------------
(* Values *)

None == [none |-> TRUE]

NaT == [k |-> "NaT", a |-> 0, b |-> 0]
Garbage == [k |-> "garbage", a |-> 0, b |-> 0]
DateStr(a, b) == [k |-> "str", a |-> a, b |-> b]
Timestamp(m, d) == [k |-> "ts", a |-> m, b |-> d]

NoText == [k |-> "nan", s |-> <<>>]
Text(s) == [k |-> "text", s |-> s]

ZeroMean == [num |-> 0, den |-> 1]
NaNMean == [num |-> 0, den |-> 0]

\* pd.isna on a Date cell / Series.isnull
isnull(v) == v.k = "NaT"

ValidMonthDay(m, d) == m \in 1..MonthsInYear /\ d \in 1..DaysInMonth

\* position of a Timestamp on the time line
Ordinal(t) == (t.a - 1) * DaysInMonth + t.b

(***************************************************************************)
(* pd.to_datetime(value, dayfirst=..., errors='coerce') on one cell.       *)
(* A Timestamp is returned as it is, a missing value gives NaT, text that  *)
(* does not parse is coerced to NaT.  On "a/b/2024" the preferred order is *)
(* month a, day b (dayfirst=False) or day a, month b (dayfirst=True); the  *)
(* parser is a library outside the repository, and whether it accepts the  *)
(* other order when the preferred one is no calendar date differs between  *)
(* its versions: strict is that choice.                                    *)
(***************************************************************************)
to_datetime(v, dayfirst, strict) ==
    CASE v.k = "ts" -> v
      [] v.k \in {"NaT", "garbage"} -> NaT
      [] OTHER ->
           LET m1 == IF dayfirst THEN v.b ELSE v.a
               d1 == IF dayfirst THEN v.a ELSE v.b
           IN  IF ValidMonthDay(m1, d1) THEN Timestamp(m1, d1)
               ELSE IF ~strict /\ ValidMonthDay(d1, m1) THEN Timestamp(d1, m1)
               ELSE NaT

----------------------------------------------------------------------------
(* Tables: [columns |-> set of names, rows |-> sequence of rows], a row    *)
(* being [index |-> label, cells |-> [column -> value]].                   *)

Range(s) == {s[i] : i \in 1..Len(s)}

HasColumn(t, c) == c \in t.columns

\* df[c] = vals: the column c set (or added) row by row
SetColumn(t, c, vals) ==
    [columns |-> t.columns \cup {c},
     rows |-> [i \in 1..Len(t.rows) |->
                 [index |-> t.rows[i].index,
                  cells |-> [x \in t.columns \cup {c} |->
                               IF x = c THEN vals[i]
                               ELSE t.rows[i].cells[x]]]]]

\* df[c] as a sequence of values
Column(t, c) == [i \in 1..Len(t.rows) |-> t.rows[i].cells[c]]

----------------------------------------------------------------------------
(* Engineer layer, dates (lines 50-65) *)

\* line 53: df['Date'] = pd.to_datetime(df['Date'], dayfirst=False, ...)
ParseMonthFirst(t, strict) ==
    SetColumn(t, "Date",
              [i \in 1..Len(t.rows) |->
                 to_datetime(t.rows[i].cells["Date"], FALSE, strict)])

\* line 56: df['Date'].isnull().all()
AllNull(t) == \A i \in 1..Len(t.rows) : isnull(t.rows[i].cells["Date"])

\* lines 56-57: the retry reads df['Date'], which line 53 has overwritten
RetryDayFirst(t, strict) ==
    IF AllNull(t)
    THEN SetColumn(t, "Date",
                   [i \in 1..Len(t.rows) |->
                      to_datetime(t.rows[i].cells["Date"], TRUE, strict)])
    ELSE t

\* line 60: df.dropna(subset=['Date'])
RECURSIVE DropNullDates(_)
DropNullDates(rows) ==
    IF rows = <<>> THEN <<>>
    ELSE (IF isnull(Head(rows).cells["Date"]) THEN <<>> ELSE <<Head(rows)>>)
         \o DropNullDates(Tail(rows))

\* variant: line 60 left out
dropna_keeps_all(t) == t

dropna(t) == [t EXCEPT !.rows = DropNullDates(t.rows)]

(***************************************************************************)
(* line 61: df.sort_values(by='Date').  The default kind is 'quicksort',   *)
(* which pandas documents as not stable: the result is ascending in Date,  *)
(* and the order it gives to rows of equal Date is not determined by the   *)
(* call.  SortedOrders is the set of results the call can return.          *)
(***************************************************************************)
Earliest(S) ==
    {r \in S : \A q \in S : Ordinal(r.cells["Date"]) <= Ordinal(q.cells["Date"])}

RECURSIVE SortedOrders(_)
SortedOrders(S) ==
    IF S = {} THEN {<<>>}
    ELSE UNION {{<<r>> \o rest : rest \in SortedOrders(S \ {r})} : r \in Earliest(S)}

sort_values(t) == {[t EXCEPT !.rows = o] : o \in SortedOrders(Range(t.rows))}

\* lines 53-61 on a table that has a Date column: the possible results
CleanDates(t, strict) ==
    sort_values(dropna(RetryDayFirst(ParseMonthFirst(t, strict), strict)))

----------------------------------------------------------------------------
(* Engineer layer, sentiment (lines 67-81) *)

IsBlank(tok) == tok = " "

\* str.strip(): leading and trailing whitespace removed
RECURSIVE LStrip(_)
LStrip(s) == IF s # <<>> /\ IsBlank(Head(s)) THEN LStrip(Tail(s)) ELSE s

RECURSIVE RStrip(_)
RStrip(s) ==
    IF s # <<>> /\ IsBlank(s[Len(s)]) THEN RStrip(SubSeq(s, 1, Len(s) - 1)) ELSE s

strip(s) == RStrip(LStrip(s))

(***************************************************************************)
(* TextBlob(text).sentiment.polarity (line 72): the mean of the polarity   *)
(* of the words of the text that the lexicon knows, 0.0 when it knows      *)
(* none.  The lexicon here holds three words, in units of 1/Scale.         *)
(***************************************************************************)
WordPolarity(w) ==
    CASE w = "great" -> 8
      [] w = "good" -> 7
      [] w = "bad" -> -7
      [] OTHER -> 0

InLexicon(w) == w \in {"great", "good", "bad"}

RECURSIVE SumPolarity(_)
SumPolarity(s) ==
    IF s = <<>> THEN 0 ELSE WordPolarity(Head(s)) + SumPolarity(Tail(s))

RECURSIVE CountAssessed(_)
CountAssessed(s) ==
    IF s = <<>> THEN 0
    ELSE (IF InLexicon(Head(s)) THEN 1 ELSE 0) + CountAssessed(Tail(s))

TextBlobPolarity(s) ==
    IF CountAssessed(s) = 0 THEN 0 ELSE SumPolarity(s) \div CountAssessed(s)

\* variant: the text is compared with "" without strip()
SkipsScorer_NoStrip(j) == j.k = "nan" \/ j.s = <<>>

\* line 69: pd.isna(text) or str(text).strip() == ""
SkipsScorer(j) == j.k = "nan" \/ strip(j.s) = <<>>

\* lines 68-72
get_sentiment(j) == IF SkipsScorer(j) THEN 0 ELSE TextBlobPolarity(j.s)

(***************************************************************************)
(* Series.rolling(window=7, min_periods=1).mean() (line 77): pandas keeps  *)
(* a running sum and count, adds the entering value, removes the value     *)
(* that leaves the window, and yields sum/count once count >= min_periods. *)
(***************************************************************************)
RECURSIVE RollFrom(_, _, _, _, _, _)
RollFrom(xs, i, sum, nobs, window, minp) ==
    IF i > Len(xs) THEN <<>>
    ELSE LET leaving == i > window
             s2 == sum + xs[i] - (IF leaving THEN xs[i - window] ELSE 0)
             n2 == nobs + 1 - (IF leaving THEN 1 ELSE 0)
         IN  <<IF n2 >= minp THEN [num |-> s2, den |-> n2] ELSE NaNMean>>
             \o RollFrom(xs, i + 1, s2, n2, window, minp)

\* variant: an expanding mean, no value ever leaves the window
rolling_mean_expanding(xs) == RollFrom(xs, 1, 0, 0, Len(xs) + 1, MinPeriods)

rolling_mean(xs) == RollFrom(xs, 1, 0, 0, Window, MinPeriods)

\* lines 74-81
AddSentiment(t) ==
    IF HasColumn(t, "Journal")
    THEN LET scores == [i \in 1..Len(t.rows) |->
                          get_sentiment(t.rows[i].cells["Journal"])]
             withScore == SetColumn(t, "Sentiment_Score", scores)
         IN  SetColumn(withScore, "Sentiment_Trend", rolling_mean(scores))
    ELSE SetColumn(SetColumn(t, "Sentiment_Score", [i \in 1..Len(t.rows) |-> 0]),
                   "Sentiment_Trend", [i \in 1..Len(t.rows) |-> ZeroMean])

\* the rows for which line 72 is reached
ScorerCalls(t) ==
    IF HasColumn(t, "Journal")
    THEN {t.rows[i].index : i \in {n \in 1..Len(t.rows) :
                                      ~SkipsScorer(t.rows[n].cells["Journal"])}}
    ELSE {}
----------------------------------------------------------------------------
(* Ingest layer (lines 18-47) *)

Message(where, level, text, detail) ==
    [where |-> where, level |-> level, text |-> text, detail |-> detail]

\* what pd.read_csv raises for each kind of failure
ExceptionText(failure) ==
    CASE failure = "malformed" -> "ParserError"
      [] failure = "noncsv" -> "ParserError"
      [] failure = "unreachable" -> "URLError"
      [] failure = "forbidden" -> "HTTPError"
      [] OTHER -> ""

\* the failures each source mode can meet
Failures(type) ==
    IF type = "upload" THEN {"malformed"}
    ELSE {"malformed", "noncsv", "unreachable", "forbidden"}

\* variant: the except branches leave an empty DataFrame in df
LoadedDf_EmptyOnFailure(src) ==
    IF ~src.supplied THEN None
    ELSE IF src.failure = "none" THEN src.content
    ELSE [columns |-> {}, rows |-> <<>>]

\* lines 22-42: df after the selected branch ran
LoadedDf(src) ==
    IF src.supplied /\ src.failure = "none" THEN src.content ELSE None

\* variant: the link branch swallows the exception without a message
LoadMessages_SilentLink(src) ==
    IF ~src.supplied THEN {}
    ELSE IF src.type = "upload"
    THEN IF src.failure = "none"
         THEN {Message("sidebar", "success", "File Uploaded Successfully", "")}
         ELSE {Message("sidebar", "error", "Error loading file",
                       ExceptionText(src.failure))}
    ELSE IF src.failure = "none"
         THEN {Message("sidebar", "success", "Connected to Cloud", "")}
         ELSE {}

\* lines 30-32 and 40-42: what the sidebar shows after pd.read_csv
LoadMessages(src) ==
    IF ~src.supplied THEN {}
    ELSE IF src.type = "upload"
    THEN IF src.failure = "none"
         THEN {Message("sidebar", "success", "File Uploaded Successfully", "")}
         ELSE {Message("sidebar", "error", "Error loading file",
                       ExceptionText(src.failure))}
    ELSE IF src.failure = "none"
         THEN {Message("sidebar", "success", "Connected to Cloud", "")}
         ELSE {Message("sidebar", "error",
                       "Could not load link. Check permissions.", "")}

\* line 46
NoDataInfo ==
    Message("main", "info", "Please connect your data source in the Sidebar to begin.", "")

\* line 64
DateParsingError == Message("main", "error", "Date Parsing Error", "KeyError: 'Date'")

----------------------------------------------------------------------------
(* Dashboard layer (lines 85-147) *)

\* df.tail(n)
tail(t, n) ==
    [t EXCEPT !.rows = SubSeq(t.rows, IF Len(t.rows) > n THEN Len(t.rows) - n + 1 ELSE 1,
                              Len(t.rows))]

RECURSIVE SumSeq(_)
SumSeq(xs) == IF xs = <<>> THEN 0 ELSE Head(xs) + SumSeq(Tail(xs))

\* filtered_df[c]: raises KeyError when the column is absent
Lookup(t, c) ==
    IF HasColumn(t, c) THEN [raises |-> FALSE, vals |-> Column(t, c)]
    ELSE [raises |-> TRUE, vals |-> <<>>]

SeriesMean(col) ==
    [raises |-> col.raises,
     value |-> IF col.raises \/ col.vals = <<>> THEN NaNMean
               ELSE [num |-> SumSeq(col.vals), den |-> Len(col.vals)]]

SeriesSum(col) ==
    [raises |-> col.raises,
     value |-> IF col.raises THEN 0 ELSE SumSeq(col.vals)]

\* variant: the column is read without the presence check
avg_energy_unguarded(t) == SeriesMean(Lookup(t, "Energy"))

\* line 97
avg_energy(t) ==
    IF HasColumn(t, "Energy") THEN SeriesMean(Lookup(t, "Energy"))
    ELSE [raises |-> FALSE, value |-> ZeroMean]

\* line 98
total_deep(t) ==
    IF HasColumn(t, "Deep_Work") THEN SeriesSum(Lookup(t, "Deep_Work"))
    ELSE [raises |-> FALSE, value |-> 0]

\* line 99: only whether .std() can be evaluated is kept
consistency(t) ==
    IF HasColumn(t, "Tasks_Done") THEN [raises |-> Lookup(t, "Tasks_Done").raises]
    ELSE [raises |-> FALSE]

Num(n) == [k |-> "num", v |-> n]
NumNaN == [k |-> "nan", v |-> 0]

\* line 122: mood_map, a label outside it maps to NaN
mood_map(m) ==
    CASE m = "Great" -> Num(5)
      [] m = "Good" -> Num(4)
      [] m = "Neutral" -> Num(3)
      [] m = "Bad" -> Num(2)
      [] m = "Terrible" -> Num(1)
      [] OTHER -> NumNaN

\* lines 121-123
AddMoodScore(t) ==
    IF HasColumn(t, "Mood") /\ ~HasColumn(t, "Mood_Score")
    THEN SetColumn(t, "Mood_Score",
                   [i \in 1..Len(t.rows) |-> mood_map(t.rows[i].cells["Mood"])])
    ELSE t

\* line 127
MoodNormalized(score) ==
    IF score.k = "nan" THEN NaNMean
    ELSE [num |-> score.v - MoodCentre, den |-> MoodHalfRange]

\* lines 126-131
AddMoodNormalized(t) ==
    IF HasColumn(t, "Mood_Score")
    THEN SetColumn(t, "Mood_Normalized",
                   [i \in 1..Len(t.rows) |-> MoodNormalized(t.rows[i].cells["Mood_Score"])])
    ELSE t

\* lines 111-115 and 126-131: the warning and the info of the two charts
ChartMessages(t) ==
    (IF HasColumn(t, "Tasks_Done") /\ HasColumn(t, "Energy") THEN {}
     ELSE {Message("main", "warning", "Missing 'Tasks_Done' or 'Energy' columns.", "")})
    \cup
    (IF HasColumn(t, "Mood_Score") THEN {}
     ELSE {Message("main", "info",
                   "Ensure you have a 'Mood' column to see this comparison.", "")})

NoKpi == [avg_energy |-> ZeroMean, total_deep |-> 0, days_tracked |-> 0]
----------------------------------------------------------------------------
(* The CSV contents the user can supply.  pd.read_csv gives the rows the   *)
(* index labels 0, 1, 2, ... in file order.                                *)

AllColumns ==
    {"Date", "Journal", "Mood", "Mood_Score", "Energy", "Deep_Work", "Tasks_Done"}

DateVals == {DateStr(1, 2), DateStr(2, 1), DateStr(13, 1), Garbage}

JournalVals ==
    {NoText, Text(<<>>), Text(<<" ">>), Text(<<"great", " ", "day">>), Text(<<"bad">>)}

\* the table read_csv builds from the rows' cells, in file order
MakeTable(cols, cells) ==
    [columns |-> cols,
     rows |-> [i \in 1..Len(cells) |-> [index |-> i - 1, cells |-> cells[i]]]]

\* tables of up to MaxRows rows with a Date column and any mix of dates
DateTables ==
    UNION {{MakeTable({"Date"}, [i \in 1..n |-> [c \in {"Date"} |-> d[i]]])
              : d \in [1..n -> DateVals]}
           : n \in 0..MaxRows}

\* the same with a Journal column
JournalTables ==
    UNION {{MakeTable({"Date", "Journal"},
                      [i \in 1..n |-> [c \in {"Date", "Journal"} |->
                                         IF c = "Date" THEN d[i] ELSE j[i]]])
              : d \in [1..n -> DateVals], j \in [1..n -> JournalVals]}
           : n \in 0..MaxRows}

\* one-row tables with every subset of the recognised columns
SampleCell(c) ==
    CASE c = "Date" -> DateStr(1, 2)
      [] c = "Journal" -> Text(<<"great", " ", "day">>)
      [] c = "Mood" -> "Great"
      [] c = "Mood_Score" -> Num(4)
      [] c = "Energy" -> 4
      [] c = "Deep_Work" -> 2
      [] OTHER -> 3

ColumnTables ==
    {MakeTable(cols, <<[c \in cols |-> SampleCell(c)]>>) : cols \in SUBSET AllColumns}

\* daily logs longer than the rolling window: one entry a day, in file order
LogTables ==
    UNION {{MakeTable({"Date", "Journal"},
                      [i \in 1..n |-> [c \in {"Date", "Journal"} |->
                                         IF c = "Date" THEN DateStr(1, i) ELSE j[i]]])
              : j \in [1..n -> {Text(<<"great", " ", "day">>), Text(<<"bad">>)}]}
           : n \in (MaxRows + 1)..MaxLogRows}

RawTables == DateTables \cup JournalTables \cup ColumnTables \cup LogTables

NoContent == [columns |-> {}, rows |-> <<>>]

\* the user's choices for one cycle: mode, whether something was supplied,
\* what loading it meets, and the table the CSV holds
Sources ==
    {[type |-> t, supplied |-> FALSE, failure |-> "none", content |-> NoContent]
       : t \in {"upload", "link"}}
    \cup
    UNION {{[type |-> t, supplied |-> TRUE, failure |-> f, content |-> NoContent]
              : f \in Failures(t)} : t \in {"upload", "link"}}
    \cup
    {[type |-> t, supplied |-> TRUE, failure |-> "none", content |-> c]
       : t \in {"upload", "link"}, c \in RawTables}

----------------------------------------------------------------------------
(* The render cycle *)

Init ==
    /\ pc = "Start"
    /\ source = [type |-> "upload", supplied |-> FALSE, failure |-> "none",
                 content |-> NoContent]
    /\ df = None
    /\ filtered_df = None
    /\ shown = {}
    /\ kpi = NoKpi
    /\ fallback = FALSE
    /\ scored = {}
    /\ first_out = None
    /\ prev_halted = FALSE

\* lines 18-47; every run of the script starts with fresh globals
Ingest ==
    /\ pc = "Start"
    /\ \E src \in Sources :
         /\ source' = src
         /\ df' = LoadedDf(src)
         /\ IF df' = None
            THEN /\ shown' = LoadMessages(src) \cup {NoDataInfo}
                 /\ pc' = "NoData"
            ELSE /\ shown' = LoadMessages(src)
                 /\ pc' = "Engineer"
    /\ UNCHANGED <<filtered_df, kpi, fallback, scored, first_out, prev_halted>>

\* lines 50-65
Engineer ==
    /\ pc = "Engineer"
    /\ IF ~HasColumn(df, "Date")
       THEN /\ shown' = shown \cup {DateParsingError}
            /\ pc' = "DateError"
            /\ UNCHANGED <<df, fallback>>
       ELSE \E strict \in BOOLEAN :
              /\ df' \in CleanDates(df, strict)
              /\ fallback' = AllNull(ParseMonthFirst(df, strict))
              /\ pc' = "Sentiment"
              /\ UNCHANGED shown
    /\ UNCHANGED <<source, filtered_df, kpi, scored, first_out, prev_halted>>

\* lines 67-81
Sentiment ==
    /\ pc = "Sentiment"
    /\ df' = AddSentiment(df)
    /\ scored' = ScorerCalls(df)
    /\ pc' = "Dashboard"
    /\ UNCHANGED <<source, filtered_df, shown, kpi, fallback, first_out, prev_halted>>

\* lines 85-147
Dashboard ==
    /\ pc = "Dashboard"
    /\ \E days_to_show \in {SliderMin, SliderDefault} :
         LET f == tail(df, days_to_show)
             e == avg_energy(f)
             d == total_deep(f)
             c == consistency(f)
         IN  IF e.raises \/ d.raises \/ c.raises
             THEN /\ pc' = "Crashed"
                  /\ UNCHANGED <<filtered_df, kpi, shown>>
             ELSE /\ pc' = "Done"
                  /\ kpi' = [avg_energy |-> e.value, total_deep |-> d.value,
                             days_tracked |-> Len(f.rows)]
                  /\ filtered_df' = AddMoodNormalized(AddMoodScore(f))
                  /\ shown' = shown \cup ChartMessages(filtered_df')
    /\ UNCHANGED <<source, df, fallback, scored, first_out, prev_halted>>

\* a user interaction after the script stopped or ended: Streamlit runs the
\* script again from line 1, nothing of the last run is kept
Rerun ==
    /\ pc \in {"NoData", "DateError", "Done", "Crashed"}
    /\ pc' = "Start"
    /\ source' = [type |-> "upload", supplied |-> FALSE, failure |-> "none",
                  content |-> NoContent]
    /\ df' = None
    /\ filtered_df' = None
    /\ shown' = {}
    /\ kpi' = NoKpi
    /\ fallback' = FALSE
    /\ scored' = {}
    /\ first_out' = None
    /\ prev_halted' = (pc = "NoData")

Next == Ingest \/ Engineer \/ Sentiment \/ Dashboard \/ Rerun

Spec == Init /\ [][Next]_vars

\* the Normalizer (lines 50-81) applied once more, to its own output
Reapply ==
    /\ pc = "Dashboard"
    /\ first_out = None
    /\ first_out' = df
    /\ pc' = "Engineer"
    /\ UNCHANGED <<source, df, filtered_df, shown, kpi, fallback, scored, prev_halted>>

NextTwice == Next \/ Reapply

SpecTwice == Init /\ [][NextTwice]_vars
----------------------------------------------------------------------------
(* Properties *)

Raw == source.content

\* the date cleaning of this cycle has completed without error
DatesCleaned == pc \in {"Sentiment", "Dashboard", "Done"}

\* the Normalizer (dates and sentiment) has completed
Normalized == pc \in {"Dashboard", "Done"}

DateOf(r) == r.cells["Date"]

\* "a/b" read day first is a calendar date
IsDayFirstDate(v) == v.k = "str" /\ ValidMonthDay(v.b, v.a)

AllDayFirst(t) ==
    /\ HasColumn(t, "Date")
    /\ t.rows # <<>>
    /\ \A i \in 1..Len(t.rows) : IsDayFirstDate(DateOf(t.rows[i]))

\* no value of the column parses, month first or day first
AllUnparseable(t) ==
    /\ HasColumn(t, "Date")
    /\ t.rows # <<>>
    /\ \A i \in 1..Len(t.rows) : \A dayfirst, strict \in BOOLEAN :
          to_datetime(DateOf(t.rows[i]), dayfirst, strict) = NaT

(* C1: when every Date value failed the month-first attempt and all values *)
(* are day-before-month dates, the column is reparsed day first from the   *)
(* original values and every row is retained with its parsed date.         *)
C1_FallbackRecoversRows ==
    (DatesCleaned /\ fallback /\ AllDayFirst(Raw)) =>
        /\ Len(df.rows) = Len(Raw.rows)
        /\ \A i \in 1..Len(df.rows) :
             \E j \in 1..Len(Raw.rows) :
                /\ df.rows[i].index = Raw.rows[j].index
                /\ DateOf(df.rows[i]) = Timestamp(DateOf(Raw.rows[j]).b, DateOf(Raw.rows[j]).a)

(* C2: when the Date column is absent, or every Date value is unparseable  *)
(* under both attempts, normalization fails with the date-parse error and  *)
(* the cycle stops before sentiment scoring and presentation.              *)
C2_UnparseableDatesFail ==
    (pc \notin {"Start", "NoData", "Engineer"}
       /\ (~HasColumn(Raw, "Date") \/ AllUnparseable(Raw))) =>
        /\ pc = "DateError"
        /\ DateParsingError \in shown

(* C3: after the date cleaning every row of the table has a parsed Date    *)
(* and the rows are in non-decreasing Date order.                          *)
C3_ParsedAndSorted ==
    DatesCleaned =>
        /\ \A i \in 1..Len(df.rows) : DateOf(df.rows[i]).k = "ts"
        /\ \A i, j \in 1..Len(df.rows) :
             i < j => Ordinal(DateOf(df.rows[i])) <= Ordinal(DateOf(df.rows[j]))

\* rows were dropped and the remaining ones were reordered
C3_Witness ==
    /\ pc = "Sentiment"
    /\ Len(df.rows) >= 2
    /\ df.rows[1].index > df.rows[2].index
    /\ Ordinal(DateOf(df.rows[1])) < Ordinal(DateOf(df.rows[2]))

\* the Loader produced a table in this cycle
Produced == source.supplied /\ source.failure = "none"

\* every row of t is a row of raw with its source columns, other than Date,
\* unchanged
DerivedFrom(t, raw) ==
    /\ raw.columns \subseteq t.columns
    /\ \A i \in 1..Len(t.rows) :
         \E j \in 1..Len(raw.rows) :
            /\ t.rows[i].index = raw.rows[j].index
            /\ \A c \in raw.columns \ {"Date"} :
                 t.rows[i].cells[c] = raw.rows[j].cells[c]

(* C4: a cycle in which the Loader produced no table halts before the      *)
(* Normalizer and the presentation layer run; a cycle with a valid source  *)
(* works on a table built from that source alone, whatever came before.    *)
C4_NoTableHalts ==
    /\ ~Produced => (pc \in {"Start", "NoData"} /\ df = None /\ filtered_df = None)
    /\ (pc = "NoData") => (~Produced /\ NoDataInfo \in shown)
    /\ (pc = "Engineer") => (Produced /\ df = Raw)
    /\ Normalized => (Produced /\ DerivedFrom(df, Raw))

\* a cycle with a valid source completed right after a halted one
C4_Witness ==
    /\ pc = "Done"
    /\ prev_halted
    /\ Len(df.rows) >= 1

LoadFailed == pc = "NoData" /\ source.supplied /\ source.failure # "none"

FailureClass(f) == IF f \in {"malformed", "noncsv"} THEN "parse" ELSE "connection"

MessageClass(m) == IF m.text = "Error loading file" THEN "parse" ELSE "connection"

ErrorsShown == {m \in shown : m.level = "error"}

RECURSIVE RangeSum(_, _, _)
RangeSum(xs, lo, hi) == IF lo > hi THEN 0 ELSE xs[lo] + RangeSum(xs, lo + 1, hi)

WindowStart(i) == IF i - 6 > 1 THEN i - 6 ELSE 1

(* C6: with a Journal column, Sentiment_Trend of the i-th row is the mean  *)
(* of Sentiment_Score over the rows max(first, i-6) .. i of the table.     *)
C6_TrailingMean ==
    (Normalized /\ HasColumn(df, "Journal")) =>
        \A i \in 1..Len(df.rows) :
           df.rows[i].cells["Sentiment_Trend"] =
              [num |-> RangeSum(Column(df, "Sentiment_Score"), WindowStart(i), i),
               den |-> i - WindowStart(i) + 1]

\* a table longer than the window whose first score differs from its last
C6_Witness ==
    /\ pc = "Dashboard"
    /\ HasColumn(df, "Journal")
    /\ Len(df.rows) > 7
    /\ df.rows[1].cells["Sentiment_Score"] # df.rows[Len(df.rows)].cells["Sentiment_Score"]

(* C7: rows of equal Date keep the relative order they had in the input.   *)
C7_StableTies ==
    DatesCleaned =>
        \A i, j \in 1..Len(df.rows) :
           (i < j /\ DateOf(df.rows[i]) = DateOf(df.rows[j]))
              => df.rows[i].index < df.rows[j].index

(* C8: the Normalizer applied to its own output gives the same table.      *)
C8_Idempotent ==
    (Normalized /\ first_out # None) => df = first_out

\* the optional columns the file lacks
Absent(c) == ~HasColumn(Raw, c)

(* C9: with a Date column that parses, missing optional columns never end  *)
(* the cycle with an error; without Journal both sentiment columns are 0   *)
(* on every row; without Mood and Mood_Score there is no Mood_Normalized.  *)
C9_MissingOptionalColumns ==
    /\ pc # "Crashed"
    /\ (Produced /\ HasColumn(Raw, "Date")) => pc # "DateError"
    /\ (Normalized /\ Absent("Journal")) =>
          \A i \in 1..Len(df.rows) :
             /\ df.rows[i].cells["Sentiment_Score"] = 0
             /\ df.rows[i].cells["Sentiment_Trend"].num = 0
             /\ df.rows[i].cells["Sentiment_Trend"].den # 0
    /\ (pc = "Done" /\ Absent("Mood") /\ Absent("Mood_Score")) =>
          ~HasColumn(filtered_df, "Mood_Normalized")

\* a file holding only the Date column was rendered to the end
C9_Witness ==
    /\ pc = "Done"
    /\ Raw.columns = {"Date"}
    /\ Len(filtered_df.rows) >= 1

\* the Journal cell is missing, empty, or holds only whitespace
BlankJournal(j) == j.k = "nan" \/ \A n \in 1..Len(j.s) : j.s[n] = " "

(* C10: with a Journal column every Sentiment_Score lies in [-1, 1]; it is *)
(* 0 for a missing, empty or whitespace-only Journal, and the scorer is    *)
(* not consulted for such a row.                                           *)
C10_ScoreRange ==
    (Normalized /\ HasColumn(df, "Journal")) =>
        \A i \in 1..Len(df.rows) :
           /\ df.rows[i].cells["Sentiment_Score"] \in (0 - Scale)..Scale
           /\ BlankJournal(df.rows[i].cells["Journal"]) =>
                 /\ df.rows[i].cells["Sentiment_Score"] = 0
                 /\ df.rows[i].index \notin scored

\* a whitespace-only entry beside one the scorer rated
C10_Witness ==
    /\ pc = "Dashboard"
    /\ HasColumn(df, "Journal")
    /\ \E i, j \in 1..Len(df.rows) :
          /\ df.rows[i].cells["Journal"] = Text(<<" ">>)
          /\ df.rows[j].cells["Sentiment_Score"] # 0
          /\ df.rows[j].index \in scored
====
